---- MODULE Spec2Model ----
(***************************************************************************)
(* TwoLayerNet and FullyConnectedNet of core/classifiers/fc_net.py.        *)
(*                                                                         *)
(* Tensors are 1x1 integer tensors: batch size, input dimension, every     *)
(* hidden width and the class count are 1, so a tensor is its one entry.   *)
(* Losses are kept in half units (loss2 = 2 * loss), which keeps the       *)
(* factor 0.5 of the L2 penalty exact in integer arithmetic.               *)
(* Python dicts are functions over their (string) keys, Python lists are   *)
(* sequences; an exception ends a call and is recorded in the field exc.   *)
(***************************************************************************)
EXTENDS Integers, Sequences, FiniteSets, TLC

\* ---------------------------------------------------------------- bounds
MaxHidden == 2
MaxReg == 2

\* ---------------------------------------------------------------- inputs
None == -1
WeightVals == {-1, 2}
InputVals == {-1, 1}
LabelVals == {0}
RegVals == {0, MaxReg}
DropoutVals == {0, 50}
SeedVals == {None, 1}
DTypes == {"float32", "float64"}
BiasVals == {0, 1}
\* 2^24 + 1 is the least positive integer float32 cannot hold
EquivInputVals == {-1, 16777217}

\* ------------------------------------------------------- Python helpers
\* d[k] = v on a dict
DictSet(d, k, v) == [x \in (DOMAIN d) \cup {k} |-> IF x = k THEN v ELSE d[x]]

\* str(i), and the parameter / cache names built from it
str(i) == ToString(i)

\* key in d, for a dict all of whose keys are str: an int key equals none of them
DictHas(d, key) == key.t = "str" /\ key.v \in DOMAIN d

\* 0 <= k < len(list) or -len(list) <= k < 0: list[k] does not raise IndexError
ListHas(list, k) == -Len(list) <= k /\ k < Len(list)

\* v.astype(dtype): float32 holds every integer of magnitude up to 2^24 exactly
\* and rounds the larger ones to even multiples; float64 holds all of them
astype(v, dtype) ==
    IF dtype = "float32" /\ (v > 16777216 \/ v < -16777216)
    THEN (v \div 2) * 2
    ELSE v

\* ------------------------------------------ layer primitives (core.layers)
affine_forward(x, w, b) == [out |-> x * w + b, cache |-> <<x, w, b>>]

affine_backward(dout, cache) ==
    [dx |-> dout * cache[2], dw |-> cache[1] * dout, db |-> dout]

relu_forward(x) == [out |-> IF x > 0 THEN x ELSE 0, cache |-> <<x>>]

relu_backward(dout, cache) == IF cache[1] > 0 THEN dout ELSE 0

\* train: the activation is kept (mask 1) or zeroed (mask 0); test: identity
dropout_forward(x, dropout_param, mask) ==
    IF dropout_param["mode"] = "train"
    THEN [out |-> x * mask, cache |-> <<1, mask>>]
    ELSE [out |-> x, cache |-> <<0, 1>>]

dropout_backward(dout, cache) == IF cache[1] = 1 THEN dout * cache[2] ELSE dout

\* train: standardise with the batch statistics (a batch of one is its own
\* mean) and update the running mean kept in the record; test: standardise
\* with the running mean
batchnorm_forward(x, gamma, beta, bn_param) ==
    IF bn_param["mode"] = "train"
    THEN [out |-> beta, cache |-> <<x, gamma>>,
          bn_param |-> DictSet(bn_param, "running_mean", x)]
    ELSE [out |-> gamma * (x - (IF "running_mean" \in DOMAIN bn_param
                                THEN bn_param["running_mean"] ELSE 0)) + beta,
          cache |-> <<x, gamma>>,
          bn_param |-> bn_param]

batchnorm_backward(dout, cache) == [dx |-> 0, dgamma |-> 0, dbeta |-> dout]

\* a deterministic function of the scores and the labels: the data loss (in
\* half units, growing linearly in the scores) and its gradient with respect
\* to the scores (bounded by 1 in magnitude)
softmax_loss(scores, y) ==
    [loss2 |-> IF scores >= y THEN 2 * (scores - y) ELSE 2 * (y - scores),
     dx |-> IF scores > y THEN 1 ELSE IF scores < y THEN -1 ELSE 0]

\* one primitive invocation: the primitive, the cache it creates or consumes,
\* its numeric arguments, and the mode it is handed ("" when it takes none)
Ev(op, key, args, mode) == [op |-> op, key |-> key, args |-> args, mode |-> mode]

\* ------------------------------------------------------- call records
NoCall ==
    [mode |-> "none", X |-> 0, y |-> None, exc |-> "", kind |-> "none",
     scores |-> 0, loss2 |-> 0, grads |-> <<>>, trace |-> <<>>,
     created |-> <<>>, consumed |-> <<>>, masks |-> <<>>]

\* ------------------------------------------------------------ TwoLayerNet
NoTwoLayerNet == [state |-> "none", reg |-> 0, params |-> <<>>]

\* TwoLayerNet(reg=reg), w1 and w2 the draws of np.random.normal
TwoLayerNet_init(reg, w1, w2) ==
    LET p1 == DictSet(<<>>, "W1", w1)
        p2 == DictSet(p1, "W2", w2)
        p3 == DictSet(p2, "b1", 0)
        p4 == DictSet(p3, "b2", 0)
    IN  [state |-> "ready", reg |-> reg, params |-> p4]

\* 0.5 * reg * (sum(W1 ** 2) + sum(W2 ** 2)), in half units
TwoLayerRegLoss(reg, w1, w2) == reg * (w1 * w1 + w2 * w2)

\* TwoLayerNet.loss(X, y): the object after the call and what the call did
TwoLayerNet_loss(self, X, y) ==
    LET P == self.params
        a1 == affine_forward(X, P["W1"], P["b1"])
        r == relu_forward(a1.out)
        a2 == affine_forward(r.out, P["W2"], P["b2"])
        scores == a2.out
        fwd == << Ev("affine_forward", "cache1", <<X, P["W1"], P["b1"]>>, ""),
                  Ev("relu_forward", "cache2", <<a1.out>>, ""),
                  Ev("affine_forward", "cache3", <<r.out, P["W2"], P["b2"]>>, "") >>
        made == <<"cache1", "cache2", "cache3">>
    IN  IF y = None
        THEN [self |-> self,
              out |-> [mode |-> "test", X |-> X, y |-> y, exc |-> "",
                       kind |-> "scores", scores |-> scores, loss2 |-> 0,
                       grads |-> <<>>, trace |-> fwd, created |-> made,
                       consumed |-> <<>>, masks |-> <<>>]]
        ELSE
          LET sm == softmax_loss(scores, y)
              k3 == affine_backward(sm.dx, a2.cache)
              g1 == DictSet(<<>>, "W2", k3.dw + self.reg * P["W2"])
              g2 == DictSet(g1, "b2", k3.db)
              k2 == relu_backward(k3.dx, r.cache)
              k1 == affine_backward(k2, a1.cache)
              g3 == DictSet(g2, "W1", k1.dw + self.reg * P["W1"])
              g4 == DictSet(g3, "b1", k1.db)
              bwd == << Ev("softmax_loss", "", <<scores, y>>, ""),
                        Ev("affine_backward", "cache3", <<sm.dx>> \o a2.cache, ""),
                        Ev("relu_backward", "cache2", <<k3.dx>> \o r.cache, ""),
                        Ev("affine_backward", "cache1", <<k2>> \o a1.cache, "") >>
          IN  [self |-> self,
               out |-> [mode |-> "train", X |-> X, y |-> y, exc |-> "",
                        kind |-> "pair", scores |-> scores,
                        loss2 |-> sm.loss2 + TwoLayerRegLoss(self.reg, P["W1"], P["W2"]),
                        grads |-> g4, trace |-> fwd \o bwd, created |-> made,
                        consumed |-> <<"cache3", "cache2", "cache1">>,
                        masks |-> <<>>]]

\* ------------------------------------------------------ FullyConnectedNet
NoFullyConnectedNet ==
    [state |-> "none", exc |-> "", use_batchnorm |-> FALSE, use_dropout |-> FALSE,
     reg |-> 0, num_layers |-> 0, dtype |-> "float32", params |-> <<>>,
     dropout_param |-> <<>>, bn_params |-> <<>>]

\* the remaining hidden layers: for i in range(2, len(hidden_dims) + 1)
RECURSIVE InitHiddenLayers(_, _, _, _, _)
InitHiddenLayers(params, hidden_dims, use_batchnorm, w, i) ==
    IF i > Len(hidden_dims)
    THEN params
    ELSE LET p1 == DictSet(params, "W" \o str(i), w[i])
             p2 == DictSet(p1, "b" \o str(i), 0)
             p3 == IF use_batchnorm
                   THEN DictSet(DictSet(p2, "gamma" \o str(i), 1), "beta" \o str(i), 0)
                   ELSE p2
         IN  InitHiddenLayers(p3, hidden_dims, use_batchnorm, w, i + 1)

\* FullyConnectedNet(hidden_dims, dropout=, use_batchnorm=, reg=, dtype=, seed=),
\* w[i] the draw of np.random.normal for W<i>; state "failed" when an
\* exception leaves the constructor
FullyConnectedNet_init(hidden_dims, dropout, use_batchnorm, reg, dtype, seed, w) ==
    LET use_dropout == dropout > 0
        num_layers == 1 + Len(hidden_dims)
        n == Len(hidden_dims)
        self0 == [state |-> "failed", exc |-> "", use_batchnorm |-> use_batchnorm,
                  use_dropout |-> use_dropout, reg |-> reg,
                  num_layers |-> num_layers, dtype |-> dtype,
                  params |-> <<>>, dropout_param |-> <<>>, bn_params |-> <<>>]
    IN  IF ~ListHas(hidden_dims, 0)
        THEN [self0 EXCEPT !.exc = "IndexError"]
        ELSE
          LET p1 == DictSet(DictSet(<<>>, "W1", w[1]), "b1", 0)
              p2 == IF use_batchnorm
                    THEN DictSet(DictSet(p1, "gamma1", 1), "beta1", 0)
                    ELSE p1
              p3 == InitHiddenLayers(p2, hidden_dims, use_batchnorm, w, 2)
              p4 == DictSet(DictSet(p3, "W" \o str(n + 1), w[n + 1]),
                            "b" \o str(n + 1), 0)
              dp0 == DictSet(DictSet(<<>>, "mode", "train"), "p", dropout)
              dp == IF ~use_dropout THEN <<>>
                    ELSE IF seed # None THEN DictSet(dp0, "seed", seed)
                    ELSE dp0
              bn == IF use_batchnorm
                    THEN [j \in 1..(num_layers - 1) |-> DictSet(<<>>, "mode", "train")]
                    ELSE <<>>
          IN  IF ~ListHas(hidden_dims, n - 1)
              THEN [self0 EXCEPT !.exc = "IndexError"]
              ELSE [self0 EXCEPT
                      !.state = "ready",
                      !.params = [k \in DOMAIN p4 |-> astype(p4[k], self0.dtype)],
                      !.dropout_param = dp,
                      !.bn_params = bn]

\* variant: the labels are not consulted and every call is a training call
ModeOf_IgnoringLabels(y) == "train"

\* mode = 'test' if y is None else 'train'
ModeOf(y) == IF y = None THEN "test" ELSE "train"

\* for bn_param in self.bn_params: bn_param[mode] = mode
SetBatchnormMode(bn_params, mode) ==
    [j \in DOMAIN bn_params |-> DictSet(bn_params[j], mode, mode)]

\* regloss += 0.5 * self.reg * np.sum(W ** 2) in the hidden-layer loop, half units
RegTermHidden(reg, w) == reg * w * w

\* variant: the last layer's weights are left out of the penalty
RegTermLast_LeftOut(reg, w) == 0

\* regloss += 0.5 * self.reg * np.sum(W ** 2) of the last layer, half units
RegTermLast(reg, w) == reg * w * w

\* variant: the operands swapped, the in-place sum lands in the parameter
RegularizeGrad_IntoParams(params, grads, w, reg) ==
    [params |-> DictSet(params, w, params[w] + reg * grads[w]), grads |-> grads]

\* grads[w] += self.reg * self.params[w]: the two dicts after the statement
RegularizeGrad(params, grads, w, reg) ==
    [params |-> params, grads |-> DictSet(grads, w, grads[w] + reg * params[w])]

\* the mask dropout_forward draws: fixed by the seed when one is configured
DropoutMask(dropout_param, mask) ==
    IF "seed" \in DOMAIN dropout_param THEN dropout_param["seed"] % 2 ELSE mask

\* a forward primitive has run at the current position: its output becomes the
\* running value, its cache is stored under key, the invocation is logged
Stored(st, out, key, cache, ev) ==
    [st EXCEPT
       !.x = out,
       !.cachemap = DictSet(@, key, cache),
       !.trace = Append(@, ev),
       !.created = Append(@, key)]

\* hidden layer i: the affine transform and its regularization term
AffineStage(self, st, i) ==
    LET W == self.params["W" \o str(i)]
        b == self.params["b" \o str(i)]
        key == "acache" \o str(i)
        a == affine_forward(st.x, W, b)
        ev == Ev("affine_forward", key, <<st.x, W, b>>, "")
        reg == st.regloss2 + RegTermHidden(self.reg, W)
    IN  IF st.exc # "" THEN st
        ELSE Stored([st EXCEPT !.regloss2 = reg], a.out, key, a.cache, ev)

\* hidden layer i: if self.use_batchnorm, batchnorm_forward(.., bn_param[i-1]);
\* bn_param is the variable the mode loop leaves behind, [bound, val]
BatchnormStage(self, bn_param, st, i) ==
    LET gamma == self.params["gamma" \o str(i)]
        beta == self.params["beta" \o str(i)]
        key == "bcache" \o str(i)
        n == batchnorm_forward(st.x, gamma, beta, bn_param.val[i - 1])
        ev == Ev("batchnorm_forward", key, <<st.x, gamma, beta>>, n.bn_param["mode"])
    IN  IF st.exc # "" \/ ~self.use_batchnorm THEN st
        ELSE IF ~bn_param.bound THEN [st EXCEPT !.exc = "NameError"]
        ELSE IF ~DictHas(bn_param.val, [t |-> "int", v |-> i - 1])
        THEN [st EXCEPT !.exc = "KeyError"]
        ELSE Stored(st, n.out, key, n.cache, ev)

\* hidden layer i: relu_forward
ReluStage(st, i) ==
    LET key == "rcache" \o str(i)
        r == relu_forward(st.x)
        ev == Ev("relu_forward", key, <<st.x>>, "")
    IN  IF st.exc # "" THEN st
        ELSE Stored(st, r.out, key, r.cache, ev)

\* hidden layer i: if self.use_dropout, dropout_forward(.., self.dropout_param)
DropoutStage(self, masks, st, i) ==
    LET key == "dcache" \o str(i)
        d == dropout_forward(st.x, self.dropout_param,
                             DropoutMask(self.dropout_param, masks[i]))
        ev == Ev("dropout_forward", key, <<st.x>>, self.dropout_param["mode"])
    IN  IF st.exc # "" \/ ~self.use_dropout THEN st
        ELSE Stored(st, d.out, key, d.cache, ev)

\* one pass of the loop over the hidden layers
HiddenLayerForward(self, bn_param, masks, st, i) ==
    DropoutStage(self, masks,
        ReluStage(
            BatchnormStage(self, bn_param,
                AffineStage(self, st, i), i), i), i)

\* for i in range(1, self.num_layers), stopped by the first exception
RECURSIVE ForwardLayers(_, _, _, _, _)
ForwardLayers(self, bn_param, masks, st, i) ==
    IF i >= self.num_layers \/ st.exc # ""
    THEN st
    ELSE ForwardLayers(self, bn_param, masks,
                       HiddenLayerForward(self, bn_param, masks, st, i), i + 1)

\* the last layer: scores, its cache and its regularization term
LastLayerForward(self, st) ==
    LET W == self.params["W" \o str(self.num_layers)]
        b == self.params["b" \o str(self.num_layers)]
        key == "acache" \o str(self.num_layers)
        a == affine_forward(st.x, W, b)
        ev == Ev("affine_forward", key, <<st.x, W, b>>, "")
        reg == st.regloss2 + RegTermLast(self.reg, W)
    IN  IF st.exc # "" THEN st
        ELSE Stored([st EXCEPT !.regloss2 = reg], a.out, key, a.cache, ev)

\* a backward primitive has consumed the cache under key; bk is
\* [dout, grads, params, trace, consumed]
Consumed(bk, dout, key, ev) ==
    [bk EXCEPT
       !.dout = dout,
       !.trace = Append(@, ev),
       !.consumed = Append(@, key)]

\* layer i: affine_backward, grads[W<i>], grads[b<i>], and the weight's
\* regularization added in place
AffineBackwardStep(self, cachemap, bk, i) ==
    LET w == "W" \o str(i)
        b == "b" \o str(i)
        key == "acache" \o str(i)
        k == affine_backward(bk.dout, cachemap[key])
        ev == Ev("affine_backward", key, <<bk.dout>> \o cachemap[key], "")
        g == DictSet(DictSet(bk.grads, w, k.dw), b, k.db)
        reg == RegularizeGrad(bk.params, g, w, self.reg)
    IN  Consumed([bk EXCEPT !.grads = reg.grads, !.params = reg.params],
                 k.dx, key, ev)

\* the output layer's backward step
OutputLayerBackward(self, cachemap, bk) ==
    AffineBackwardStep(self, cachemap, bk, self.num_layers)

\* layer i: if self.use_dropout, dropout_backward
DropoutBackwardStep(self, cachemap, bk, i) ==
    LET key == "dcache" \o str(i)
        ev == Ev("dropout_backward", key, <<bk.dout>> \o cachemap[key], "")
    IN  IF ~self.use_dropout THEN bk
        ELSE Consumed(bk, dropout_backward(bk.dout, cachemap[key]), key, ev)

\* variant: the backward loop passes the ReLU by
ReluBackwardStep_Skipped(cachemap, bk, i) == bk

\* layer i: relu_backward
ReluBackwardStep(cachemap, bk, i) ==
    LET key == "rcache" \o str(i)
        ev == Ev("relu_backward", key, <<bk.dout>> \o cachemap[key], "")
    IN  Consumed(bk, relu_backward(bk.dout, cachemap[key]), key, ev)

\* layer i: if self.use_batchnorm, batchnorm_backward, grads[gamma<i>], grads[beta<i>]
BatchnormBackwardStep(self, cachemap, bk, i) ==
    LET key == "bcache" \o str(i)
        n == batchnorm_backward(bk.dout, cachemap[key])
        ev == Ev("batchnorm_backward", key, <<bk.dout>> \o cachemap[key], "")
        g == DictSet(DictSet(bk.grads, "gamma" \o str(i), n.dgamma),
                     "beta" \o str(i), n.dbeta)
    IN  IF ~self.use_batchnorm THEN bk
        ELSE Consumed([bk EXCEPT !.grads = g], n.dx, key, ev)

\* one pass of the backward loop
HiddenLayerBackward(self, cachemap, bk, i) ==
    AffineBackwardStep(self, cachemap,
        BatchnormBackwardStep(self, cachemap,
            ReluBackwardStep(cachemap,
                DropoutBackwardStep(self, cachemap, bk, i), i), i), i)

\* for i in range(self.num_layers - 1, 0, -1)
RECURSIVE BackwardLayers(_, _, _, _)
BackwardLayers(self, cachemap, bk, i) ==
    IF i < 1
    THEN bk
    ELSE BackwardLayers(self, cachemap, HiddenLayerBackward(self, cachemap, bk, i), i - 1)

\* what a call hands back, as a call record
CallRecord(mode, X, y, masks, exc, kind, scores, loss2, grads, trace, created, consumed) ==
    [mode |-> mode, X |-> X, y |-> y, exc |-> exc, kind |-> kind,
     scores |-> scores, loss2 |-> loss2, grads |-> grads, trace |-> trace,
     created |-> created, consumed |-> consumed, masks |-> masks]

\* softmax_loss, loss += regloss, the backward chain, return loss, grads
TrainStep(self, X, y, masks, st) ==
    LET sm == softmax_loss(st.x, y)
        ev == Ev("softmax_loss", "", <<st.x, y>>, "")
        bk0 == [dout |-> sm.dx, grads |-> <<>>, params |-> self.params,
                trace |-> Append(st.trace, ev), consumed |-> <<>>]
        bk == BackwardLayers(self, st.cachemap,
                             OutputLayerBackward(self, st.cachemap, bk0),
                             self.num_layers - 1)
    IN  [self |-> [self EXCEPT !.params = bk.params],
         out |-> CallRecord("train", X, y, masks, "", "pair", st.x,
                            sm.loss2 + st.regloss2, bk.grads, bk.trace,
                            st.created, bk.consumed)]

\* the call after its forward pass: an exception leaves it, test mode returns
\* the scores, train mode goes on
AfterForward(self, X, y, masks, mode, st) ==
    IF st.exc # ""
    THEN [self |-> self,
          out |-> CallRecord(mode, X, y, masks, st.exc, "none", 0, 0, <<>>, st.trace,
                             st.created, <<>>)]
    ELSE IF mode = "test"
    THEN [self |-> self,
          out |-> CallRecord(mode, X, y, masks, "", "scores", st.x, 0, <<>>, st.trace,
                             st.created, <<>>)]
    ELSE TrainStep(self, X, y, masks, st)

\* the object once the mode is set: dropout_param['mode'] = mode (dropout_param
\* is a dict, never None) and, if use_batchnorm, the loop over self.bn_params
WithMode(self, mode) ==
    [self EXCEPT
       !.dropout_param = DictSet(@, "mode", mode),
       !.bn_params = IF self.use_batchnorm THEN SetBatchnormMode(@, mode) ELSE @]

\* the loop variable bn_param after the mode loop: the last record, or unbound
LeakedBnParam(self) ==
    IF self.use_batchnorm /\ Len(self.bn_params) > 0
    THEN [bound |-> TRUE, val |-> self.bn_params[Len(self.bn_params)]]
    ELSE [bound |-> FALSE, val |-> <<>>]

\* the forward pass of an object whose mode is set
ForwardPass(self, X, masks) ==
    LastLayerForward(self,
        ForwardLayers(self, LeakedBnParam(self), masks,
                      [x |-> astype(X, self.dtype), cachemap |-> <<>>,
                       regloss2 |-> 0, trace |-> <<>>, created |-> <<>>,
                       exc |-> ""], 1))

\* FullyConnectedNet.loss(X, y): the object after the call and what the call
\* did; masks[i] is the draw of the dropout layer i
FullyConnectedNet_loss(self, X, y, masks) ==
    AfterForward(WithMode(self, ModeOf(y)), X, y, masks, ModeOf(y),
                 ForwardPass(WithMode(self, ModeOf(y)), X, masks))

\* ------------------------------------------------------------------ state
VARIABLES
    two,      \* the TwoLayerNet instance
    fc,       \* the FullyConnectedNet instance
    tlast,    \* what the latest TwoLayerNet.loss call did
    flast,    \* what the latest FullyConnectedNet.loss call did
    fprev,    \* what the FullyConnectedNet.loss call before it did
    updated   \* the instances whose parameters the optimizer has written

vars == <<two, fc, tlast, flast, fprev, updated>>

Init ==
    /\ two = NoTwoLayerNet
    /\ fc = NoFullyConnectedNet
    /\ tlast = NoCall
    /\ flast = NoCall
    /\ fprev = NoCall
    /\ updated = {}

\* the optimizer's write between two calls: a gradient step on every parameter
\* the gradient mapping names
sgd(params, grads) ==
    [k \in DOMAIN params |-> IF k \in DOMAIN grads THEN params[k] - grads[k] ELSE params[k]]

\* the draws the dropout layers of a call make: one per hidden layer in a
\* training call of a network that uses dropout without a seed, none otherwise
MaskDraws(self, y) ==
    IF self.use_dropout /\ y # None /\ "seed" \notin DOMAIN self.dropout_param
    THEN [1..(self.num_layers - 1) -> {0, 1}]
    ELSE {[i \in 1..(self.num_layers - 1) |-> 1]}

\* a behaviour follows one network instance: the two classes share no state
NoInstance == two.state = "none" /\ fc.state = "none"

TwoLayerInit ==
    /\ NoInstance
    /\ \E reg \in RegVals, w1 \in WeightVals, w2 \in WeightVals :
         two' = TwoLayerNet_init(reg, w1, w2)
    /\ UNCHANGED <<fc, tlast, flast, fprev, updated>>

FCInit ==
    /\ NoInstance
    /\ \E n \in 0..MaxHidden, dropout \in DropoutVals, use_batchnorm \in BOOLEAN,
          reg \in RegVals, seed \in SeedVals :
         \E w \in [1..(n + 1) -> WeightVals] :
           fc' = FullyConnectedNet_init([j \in 1..n |-> 1], dropout,
                                        use_batchnorm, reg, "float32", seed, w)
    /\ UNCHANGED <<two, tlast, flast, fprev, updated>>

\* a TwoLayerNet.loss call on a batch drawn from Xs
TwoLayerLossOn(Xs) ==
    /\ two.state = "ready"
    /\ \E X \in Xs, y \in LabelVals \cup {None} :
         LET r == TwoLayerNet_loss(two, X, y)
         IN  /\ two' = r.self
             /\ tlast' = r.out
    /\ UNCHANGED <<fc, flast, fprev, updated>>

TwoLayerLoss == TwoLayerLossOn(InputVals)

\* a FullyConnectedNet.loss call on a batch drawn from Xs
FCLossOn(Xs) ==
    /\ fc.state = "ready"
    /\ \E X \in Xs, y \in LabelVals \cup {None} :
         \E masks \in MaskDraws(fc, y) :
           LET r == FullyConnectedNet_loss(fc, X, y, masks)
           IN  /\ fc' = r.self
               /\ flast' = r.out
               /\ fprev' = flast
    /\ UNCHANGED <<two, tlast, updated>>

FCLoss == FCLossOn(InputVals)

\* the optimizer updates the TwoLayerNet from the gradients of its latest call,
\* once in a behaviour; the call records start afresh on the new parameters
TwoLayerUpdate ==
    /\ two.state = "ready"
    /\ tlast.kind = "pair"
    /\ "TwoLayerNet" \notin updated
    /\ two' = [two EXCEPT !.params = sgd(@, tlast.grads)]
    /\ tlast' = NoCall
    /\ updated' = updated \cup {"TwoLayerNet"}
    /\ UNCHANGED <<fc, flast, fprev>>

\* the optimizer updates the FullyConnectedNet likewise
FCUpdate ==
    /\ fc.state = "ready"
    /\ flast.kind = "pair"
    /\ "FullyConnectedNet" \notin updated
    /\ fc' = [fc EXCEPT !.params = sgd(@, flast.grads)]
    /\ flast' = NoCall
    /\ fprev' = NoCall
    /\ updated' = updated \cup {"FullyConnectedNet"}
    /\ UNCHANGED <<two, tlast>>

Next ==
    \/ TwoLayerInit
    \/ FCInit
    \/ TwoLayerLoss
    \/ FCLoss
    \/ TwoLayerUpdate
    \/ FCUpdate

Spec == Init /\ [][Next]_vars

\* the two networks side by side, each somewhere in its training: a TwoLayerNet
\* and a FullyConnectedNet with one hidden layer, no batch normalization and
\* no dropout, each with its own weights, biases, reg (and dtype)
InitEquiv ==
    /\ \E reg \in RegVals, w \in [1..2 -> WeightVals], b \in BiasVals :
         two = [TwoLayerNet_init(reg, w[1], w[2]) EXCEPT
                  !.params = [@ EXCEPT !["b1"] = b, !["b2"] = b]]
    /\ \E reg \in RegVals, dtype \in DTypes, w \in [1..2 -> WeightVals],
          b \in BiasVals :
         fc = [FullyConnectedNet_init(<<1>>, 0, FALSE, reg, dtype, None, w) EXCEPT
                 !.params = [@ EXCEPT !["b1"] = b, !["b2"] = b]]
    /\ tlast = NoCall
    /\ flast = NoCall
    /\ fprev = NoCall
    /\ updated = {}

TwoLayerLossEquiv == TwoLayerLossOn(EquivInputVals)

FCLossEquiv == FCLossOn(EquivInputVals)

NextEquiv == TwoLayerLossEquiv \/ FCLossEquiv

SpecEquiv == InitEquiv /\ [][NextEquiv]_vars

\* ---------------------------------------------------------------- claims
Reverse(seq) == [j \in 1..Len(seq) |-> seq[Len(seq) + 1 - j]]

RECURSIVE SumOver(_, _)
SumOver(S, f) ==
    IF S = {} THEN 0
    ELSE LET k == CHOOSE k \in S : TRUE IN f[k] + SumOver(S \ {k}, f)

\* the names of the weight matrices among the keys of a parameter store
WeightKeys(params) ==
    {k \in DOMAIN params : \E i \in 1..Cardinality(DOMAIN params) : k = "W" \o str(i)}

\* the sum over every weight matrix of its sum of squared entries
SumSqWeights(params) ==
    SumOver(WeightKeys(params), [k \in WeightKeys(params) |-> params[k] * params[k]])

BackwardOps ==
    {"affine_backward", "relu_backward", "batchnorm_backward", "dropout_backward"}

\* the caches of hidden layer i in the order the forward pass is to create them
RECURSIVE LayerCaches(_, _)
LayerCaches(self, i) ==
    IF i >= self.num_layers
    THEN <<"acache" \o str(self.num_layers)>>
    ELSE <<"acache" \o str(i)>>
         \o (IF self.use_batchnorm THEN <<"bcache" \o str(i)>> ELSE <<>>)
         \o <<"rcache" \o str(i)>>
         \o (IF self.use_dropout THEN <<"dcache" \o str(i)>> ELSE <<>>)
         \o LayerCaches(self, i + 1)

\* C1: every training-mode FullyConnectedNet.loss call, batch normalization
\* and dropout on or off, returns a gradient mapping whose key set equals the
\* key set of self.params.
C1_GradKeysEqualParamKeys ==
    flast.mode = "train" =>
        /\ flast.kind = "pair"
        /\ DOMAIN flast.grads = DOMAIN fc.params

\* C2: FullyConnectedNet with an empty hidden_dims constructs without error, has
\* num_layers = 1 and holds exactly W1 and b1.
C2_EmptyHiddenDimsConstructs ==
    (fc.state # "none" /\ fc.num_layers = 1) =>
        /\ fc.state = "ready"
        /\ fc.exc = ""
        /\ DOMAIN fc.params = {"W1", "b1"}

\* C3: after a FullyConnectedNet.loss call the mode field of the dropout
\* configuration and of every batch-norm record is the mode of that call, and
\* every primitive of the call that is handed a mode was handed that mode.
C3_ModeFieldsFollowCall ==
    flast.mode # "none" =>
        /\ fc.dropout_param["mode"] = flast.mode
        /\ \A j \in DOMAIN fc.bn_params : fc.bn_params[j]["mode"] = flast.mode
        /\ \A j \in DOMAIN flast.trace :
             flast.trace[j].mode # "" => flast.trace[j].mode = flast.mode

\* C4: a training-mode FullyConnectedNet.loss call creates one cache per
\* sublayer of its configuration, in layer order, and its backward pass
\* consumes exactly those caches in the reverse of the order of creation.
C4_BackwardMirrorsForward ==
    flast.mode = "train" =>
        /\ flast.created = LayerCaches(fc, 1)
        /\ flast.consumed = Reverse(flast.created)

\* C5: with batch normalization the network holds one record per hidden layer
\* and every loss call runs the batch-norm forward step of each hidden layer
\* and completes without a lookup failure.
C5_BatchnormRecordPerLayer ==
    (fc.state = "ready" /\ fc.use_batchnorm) =>
        /\ Len(fc.bn_params) = fc.num_layers - 1
        /\ flast.mode # "none" =>
             /\ flast.exc = ""
             /\ \A i \in 1..(fc.num_layers - 1) :
                  \E j \in DOMAIN flast.trace :
                     /\ flast.trace[j].op = "batchnorm_forward"
                     /\ flast.trace[j].key = "bcache" \o str(i)

C7_LossLeavesParams ==
    [][ updated' = updated =>
          /\ two.state = "ready" => two'.params = two.params
          /\ fc.state = "ready" => fc'.params = fc.params ]_vars

C7_Witness ==
    /\ flast.kind = "pair"
    /\ fc.reg > 0
    /\ \E k \in WeightKeys(fc.params) : flast.grads[k] # 0

\* C8: a loss call without labels, of either class, invokes neither
\* softmax_loss nor any backward primitive, produces no gradient mapping, and
\* what it returns is the scores; a call with labels that returns hands back a
\* (loss, grads) pair after softmax_loss and the backward chain, whose last
\* step is the affine backward of layer 1.
CallKeepsToMode(rec) ==
    /\ (rec.mode # "none" /\ rec.y = None) =>
         /\ \A j \in DOMAIN rec.trace :
              rec.trace[j].op \notin BackwardOps \cup {"softmax_loss"}
         /\ rec.grads = <<>>
         /\ rec.consumed = <<>>
         /\ rec.kind \in {"scores", "none"}
         /\ rec.exc = "" => rec.kind = "scores"
    /\ (rec.y # None /\ rec.exc = "") =>
         /\ rec.kind = "pair"
         /\ \E j \in DOMAIN rec.trace : rec.trace[j].op = "softmax_loss"
         /\ rec.trace[Len(rec.trace)].op = "affine_backward"
         /\ rec.consumed # <<>>
    /\ rec.y # None => rec.kind # "scores"

C9_InferenceIdempotent ==
    (fprev.mode = "test" /\ flast.mode = "test" /\ fprev.X = flast.X) =>
        /\ fprev.kind = "scores"
        /\ flast.kind = "scores"
        /\ flast.scores = fprev.scores

\* C10 as stated: a FullyConnectedNet with one hidden layer, no batch
\* normalization and no dropout and a TwoLayerNet with equal parameters and
\* equal reg, called on the same batch and labels, invoke the same primitives
\* with the same arguments in the same order and return the same scores, loss
\* and gradients.
PrimCalls(rec) == [j \in DOMAIN rec.trace |-> <<rec.trace[j].op, rec.trace[j].args>>]

SameCallOnEqualNets ==
    /\ tlast.mode # "none"
    /\ flast.mode # "none"
    /\ two.params = fc.params
    /\ two.reg = fc.reg
    /\ tlast.X = flast.X
    /\ tlast.y = flast.y

SameTraceAndResult ==
    /\ PrimCalls(tlast) = PrimCalls(flast)
    /\ tlast.kind = flast.kind
    /\ tlast.scores = flast.scores
    /\ tlast.loss2 = flast.loss2
    /\ tlast.grads = flast.grads

C10_AsStated == SameCallOnEqualNets => SameTraceAndResult

\* C10, amended: the same, for a FullyConnectedNet constructed with
\* dtype = float64, whose cast of the batch changes nothing.
C10_OneHiddenLayerIsTwoLayerNet ==
    (SameCallOnEqualNets /\ fc.dtype = "float64") => SameTraceAndResult

C10_Witness ==
    /\ SameCallOnEqualNets
    /\ fc.dtype = "float64"
    /\ tlast.kind = "pair"
    /\ two.reg > 0
    /\ flast.X = 16777217
    /\ fc.params["b1"] # 0
    /\ Len(flast.trace) = 7
    /\ flast.grads["W1"] # flast.grads["b1"]

====
